---- MODULE Spec2Model ----
(***************************************************************************)
(* Model of the Chauka visualisation components:                           *)
(*   - InteractiveStarGlobe (src/src/app/components/FloatingDot.jsx):      *)
(*     the mount effect, the star loader, init/animate, the resize         *)
(*     handler and the effect cleanup;                                     *)
(*   - ExtinctSpeciesViz (src/unnamed/part_000): getYearPosition and       *)
(*     loadData.                                                           *)
(*                                                                         *)
(* Representation of JavaScript values                                     *)
(*   strings     sequences of one-character strings                        *)
(*   numbers     [t |-> "num", v |-> Int] or [t |-> "nan"]; parseFloat and *)
(*               Number yield v in hundredths (6.7 is 670), parseInt and   *)
(*               the numbers of a store record are whole                   *)
(*   null, undefined   [t |-> "null"], [t |-> "undef"]                     *)
(***************************************************************************)
EXTENDS Integers, Sequences, FiniteSets, TLC

VARIABLES
    \* ---- Coordinate Mapper probe
    year,               \* the argument handed to getYearPosition
    yearPos,            \* its result
    mapperPc,           \* "idle" before the call, "done" after
    \* ---- Star Loader probe
    csvRows,            \* the data lines the file was written from
    response,           \* what fetch('/stars.csv') + response.text() deliver
    loaded,             \* the value loadStars() resolved to
    loaderPc,           \* "idle" before loadStars() ran, "done" after
    \* ---- ExtinctSpeciesViz
    vizPc,              \* "init", "querying" (loadData awaits the store), "settled"
    queryResult,        \* what supabase.from('ocean_stories').select('*') delivered
    data,               \* useState([]): the plotted points
    timelineData,       \* useState([]): the timeline marks
    isLoading,          \* useState(true)
    mounted,            \* useState(false)
    vizUncaught,        \* an error left loadData (an unhandled rejection)
    \* ---- InteractiveStarGlobe
    globePc,            \* "created": rendered, effect not yet run;
                        \* "fallback": the effect returned after the renderer failed;
                        \* "fetching": init() awaits fetch('/stars.csv');
                        \* "reading": init() awaits response.text();
                        \* "animating": init() returned, animate() reschedules itself
    onStarsLoadedIsFn,  \* typeof onStarsLoaded === 'function' (the prop)
    mountAttached,      \* mountRef.current is the mount <div>
    sceneRef,           \* sceneRef.current / cameraRef.current are set
    rendererRef,        \* rendererRef.current is set
    controlsRef,        \* controlsRef.current is set
    starPointsRef,      \* starPointsRef.current is set
    resource,           \* per resource: "none", "held" or "released"
    domChildren,        \* children appended to the mount <div>
    rendererSize,       \* the width last given to renderer.setSize
    rafPending,         \* a requestAnimationFrame(animate) callback is queued
    frames,             \* runs of animate()
    lateFrames,         \* runs of animate() after the effect cleanup ran
    onStarsLoadedCalls, \* invocations of onStarsLoaded
    starsLoaded,        \* what loadStars() resolved to
    fetchRejected,      \* the fetch or the body read rejected
    unmounted,          \* React unmounted the component
    cleanupRan,         \* the effect's cleanup function ran
    cleanupLog          \* which cleanup steps ran and which threw

mapperVars == <<year, yearPos, mapperPc>>
loaderVars == <<csvRows, response, loaded, loaderPc>>
vizVars == <<vizPc, queryResult, data, timelineData, isLoading, mounted, vizUncaught>>
globeVars ==
    <<globePc, onStarsLoadedIsFn, mountAttached, sceneRef, rendererRef,
      controlsRef, starPointsRef, resource, domChildren, rendererSize,
      rafPending, frames, lateFrames, onStarsLoadedCalls, starsLoaded,
      fetchRejected, unmounted, cleanupRan, cleanupLog>>
vars == <<mapperVars, loaderVars, vizVars, globeVars>>

NaN == [t |-> "nan"]
Null == [t |-> "null"]
Undef == [t |-> "undef"]
Num(v) == [t |-> "num", v |-> v]
IsNaN(x) == x.t = "nan"
IsNum(x) == x.t = "num"

(***************************************************************************)
(* String scanning shared by parseFloat, parseInt and Number.              *)
(***************************************************************************)
Digits == {"0", "1", "2", "3", "4", "5", "6", "7", "8", "9"}
WhiteSpace == {" ", "\t", "\r"}

DigitVal(c) ==
    CASE c = "0" -> 0 [] c = "1" -> 1 [] c = "2" -> 2 [] c = "3" -> 3
      [] c = "4" -> 4 [] c = "5" -> 5 [] c = "6" -> 6 [] c = "7" -> 7
      [] c = "8" -> 8 [] c = "9" -> 9

RECURSIVE SkipSpaces(_, _)
\* index of the first non-blank character of s at or after i (Len(s)+1 if none)
SkipSpaces(s, i) ==
    IF i <= Len(s) /\ s[i] \in WhiteSpace THEN SkipSpaces(s, i + 1) ELSE i

RECURSIVE CountDigits(_, _)
\* number of consecutive decimal digits of s starting at i
CountDigits(s, i) ==
    IF i <= Len(s) /\ s[i] \in Digits THEN 1 + CountDigits(s, i + 1) ELSE 0

RECURSIVE DigitsValue(_, _, _)
\* the value of the n digits of s starting at i
DigitsValue(s, i, n) ==
    IF n = 0 THEN 0
    ELSE DigitsValue(s, i, n - 1) * 10 + DigitVal(s[i + n - 1])

RECURSIVE trimEnd(_)
trimEnd(s) ==
    IF Len(s) > 0 /\ s[Len(s)] \in WhiteSpace
    THEN trimEnd(SubSeq(s, 1, Len(s) - 1)) ELSE s

\* String.prototype.trim
trim(s) == trimEnd(SubSeq(s, SkipSpaces(s, 1), Len(s)))

\* The decimal literal starting at i: sign, integer digits, optional fraction.
\* ok is FALSE when there is no digit; v is in hundredths (a third and later
\* fraction digit is below the model's resolution); end is the index after it.
ScanDecimal(s, i) ==
    LET neg == i <= Len(s) /\ s[i] = "-"
        j == IF i <= Len(s) /\ s[i] \in {"-", "+"} THEN i + 1 ELSE i
        nInt == CountDigits(s, j)
        dot == j + nInt <= Len(s) /\ s[j + nInt] = "."
        nFrac == IF dot THEN CountDigits(s, j + nInt + 1) ELSE 0
        d1 == IF nFrac >= 1 THEN DigitVal(s[j + nInt + 1]) ELSE 0
        d2 == IF nFrac >= 2 THEN DigitVal(s[j + nInt + 2]) ELSE 0
        mag == DigitsValue(s, j, nInt) * 100 + d1 * 10 + d2
    IN [ok |-> nInt + nFrac > 0,
        v |-> IF neg THEN -mag ELSE mag,
        end |-> IF dot /\ (nInt > 0 \/ nFrac > 0) THEN j + nInt + 1 + nFrac
                ELSE j + nInt]

\* parseFloat: the longest numeric prefix after leading blanks, else NaN
parseFloat(s) ==
    LET r == ScanDecimal(s, SkipSpaces(s, 1))
    IN IF r.ok THEN Num(r.v) ELSE NaN

\* parseInt(s, 10): sign and leading digits after leading blanks, else NaN
parseInt(s) ==
    LET i == SkipSpaces(s, 1)
        neg == i <= Len(s) /\ s[i] = "-"
        j == IF i <= Len(s) /\ s[i] \in {"-", "+"} THEN i + 1 ELSE i
        n == CountDigits(s, j)
    IN IF n = 0 THEN NaN
       ELSE Num(IF neg THEN -DigitsValue(s, j, n) ELSE DigitsValue(s, j, n))

(***************************************************************************)
(* Coordinate Mapper (src/unnamed/part_000).                               *)
(* The quotient (2200 - year) / (2200 - 1400) is kept exact: a position is *)
(* the fraction n / d with d = 2200 - 1400.                                *)
(***************************************************************************)
STATUS_HEIGHT == 12500
MaxYear == 2200
MinYear == 1400

\* variant: the year clamped to [1400, 2200] first
getYearPositionClamped(y) ==
    [n |-> (MaxYear - (IF y < MinYear THEN MinYear
                       ELSE IF y > MaxYear THEN MaxYear ELSE y)) * STATUS_HEIGHT,
     d |-> MaxYear - MinYear]

getYearPosition(y) ==
    [n |-> (MaxYear - y) * STATUS_HEIGHT, d |-> MaxYear - MinYear]

(***************************************************************************)
(* Star Loader (FloatingDot.jsx, loadStars).                               *)
(***************************************************************************)
maxMagnitude == 670
minMagnitude == -150
radius == 200

RECURSIVE IndexOf(_, _, _)
\* first index >= i of character c in s, 0 when there is none
IndexOf(s, c, i) ==
    IF i > Len(s) THEN 0
    ELSE IF s[i] = c THEN i ELSE IndexOf(s, c, i + 1)

RECURSIVE Split(_, _)
\* String.prototype.split on a one-character separator
Split(s, sep) ==
    LET k == IndexOf(s, sep, 1)
    IN IF k = 0 THEN <<s>>
       ELSE <<SubSeq(s, 1, k - 1)>> \o Split(SubSeq(s, k + 1, Len(s)), sep)

UndefinedStr == <<"u", "n", "d", "e", "f", "i", "n", "e", "d">>

\* array destructuring: a missing element is undefined, which parseFloat
\* reads through its string form
Field(cols, k) == IF k + 1 <= Len(cols) THEN cols[k + 1] ELSE UndefinedStr

\* Math.cos / Math.sin of deg * (Math.PI / 180); deg is in hundredths of a
\* degree. The table covers the quarter turns, which is what the catalogue
\* rows of the model use; the value is the exact one (JavaScript's differs
\* from it by rounding only and is a number whenever this one is).
cosDeg(deg) ==
    IF IsNaN(deg) THEN NaN
    ELSE CASE deg.v % 36000 = 0 -> Num(1)
           [] deg.v % 36000 = 9000 -> Num(0)
           [] deg.v % 36000 = 18000 -> Num(-1)
           [] deg.v % 36000 = 27000 -> Num(0)

sinDeg(deg) ==
    IF IsNaN(deg) THEN NaN
    ELSE CASE deg.v % 36000 = 0 -> Num(0)
           [] deg.v % 36000 = 9000 -> Num(1)
           [] deg.v % 36000 = 18000 -> Num(0)
           [] deg.v % 36000 = 27000 -> Num(-1)

\* IEEE multiplication as far as the model needs it: NaN is absorbing
Mul(a, b) == IF IsNaN(a) \/ IsNaN(b) THEN NaN ELSE Num(a.v * b.v)

\* a <= b on numbers: false when either side is NaN
Leq(a, b) == IsNum(a) /\ IsNum(b) /\ a.v <= b.v

\* the .map callback of loadStars (colour and size, which no other code
\* reads back, are left out of the record)
StarOfRow(row, index) ==
    LET cols == Split(row, ",")
        Vmag == Field(cols, 5)
        RAdeg == Field(cols, 8)
        DEdeg == Field(cols, 9)
        ra == parseFloat(RAdeg)
        de == parseFloat(DEdeg)
    IN [id |-> index + 1,
        x |-> Mul(Mul(Num(radius), cosDeg(ra)), cosDeg(de)),
        y |-> Mul(Num(radius), sinDeg(de)),
        z |-> Mul(Mul(Num(radius), sinDeg(ra)), cosDeg(de)),
        brightness |-> parseFloat(Vmag)]

\* variant: the magnitude bounds taken as exclusive
KeepStarStrict(star) ==
    /\ ~IsNaN(star.x) /\ ~IsNaN(star.y) /\ ~IsNaN(star.z)
    /\ IsNum(star.brightness)
    /\ star.brightness.v < maxMagnitude
    /\ star.brightness.v > minMagnitude

\* the .filter callback of loadStars
KeepStar(star) ==
    /\ ~IsNaN(star.x) /\ ~IsNaN(star.y) /\ ~IsNaN(star.z)
    /\ Leq(star.brightness, Num(maxMagnitude))
    /\ Leq(Num(minMagnitude), star.brightness)

\* a response: the fetch or the body read rejected, or the body text
Rejected == [ok |-> FALSE, text |-> <<>>]
Body(text) == [ok |-> TRUE, text |-> text]

\* loadStars(): try { fetch, text, split, slice(1), map, filter } catch { [] }
loadStars(resp) ==
    IF ~resp.ok THEN <<>>
    ELSE LET rows == Tail(Split(resp.text, "\n"))
             stars == [i \in 1..Len(rows) |-> StarOfRow(rows[i], i - 1)]
         IN SelectSeq(stars, KeepStar)

(***************************************************************************)
(* Catalogue files the loader is run on.                                   *)
(***************************************************************************)
MaxRows == 2

VmagTokens ==
    { <<"6", ".", "7">>, <<"7", ".", "0">>, <<"-", "1", ".", "5">>,
      <<"-", "1", ".", "6">>, <<"a", "b", "c">>, <<" ", "2", ".", "5", "x">> }
RATokens == { <<"9", "0">>, <<"1", "8", "0", "d">>, <<"h">> }
DETokens == { <<"0">>, <<>> }
BVToken == <<"0", ".", "4">>

\* one catalogue line: Vmag in column 5, RAdeg in 8, DEdeg in 9, B-V in 11
CsvLine(v, ra, de) ==
    <<"1", ",", ",", ",", ",", ",">> \o v \o <<",", ",", ",">> \o ra
        \o <<",">> \o de \o <<",", ",">> \o BVToken

\* the lines a file may hold after its header; the empty line is what a
\* trailing newline leaves behind
CsvLines ==
    { CsvLine(v, ra, de) : v \in VmagTokens, ra \in RATokens, de \in DETokens }
        \cup { <<>> }

HeaderLine == <<"H", "R", ",", "V", "m", "a", "g">>

RECURSIVE JoinLines(_)
JoinLines(rows) ==
    IF rows = <<>> THEN <<>> ELSE <<"\n">> \o Head(rows) \o JoinLines(Tail(rows))

CsvText(rows) == HeaderLine \o JoinLines(rows)

SeqsUpTo(S, n) == UNION { [1..k -> S] : k \in 0..n }

(***************************************************************************)
(* Scatter Point Builder and loadData (src/unnamed/part_000).              *)
(***************************************************************************)
STATUS_WIDTH == 1600

DigitChar(d) ==
    CASE d = 0 -> "0" [] d = 1 -> "1" [] d = 2 -> "2" [] d = 3 -> "3"
      [] d = 4 -> "4" [] d = 5 -> "5" [] d = 6 -> "6" [] d = 7 -> "7"
      [] d = 8 -> "8" [] d = 9 -> "9"

RECURSIVE NatToStr(_)
NatToStr(n) ==
    IF n < 10 THEN <<DigitChar(n)>> ELSE NatToStr(n \div 10) \o <<DigitChar(n % 10)>>

\* String(v) / v.toString() for a string or a whole number
String(v) ==
    IF v.t = "str" THEN v.s
    ELSE IF v.v < 0 THEN <<"-">> \o NatToStr(-v.v) ELSE NatToStr(v.v)

Str(s) == [t |-> "str", s |-> s]

\* ToBoolean: undefined, null, 0, NaN and "" are falsy
Truthy(v) ==
    CASE v.t = "undef" -> FALSE
      [] v.t = "null" -> FALSE
      [] v.t = "nan" -> FALSE
      [] v.t = "num" -> v.v # 0
      [] v.t = "str" -> Len(v.s) > 0

\* Number(v) for a whole number or a string; the result is in hundredths.
\* A string converts when, trimmed, it is empty (0) or one decimal literal.
Number(v) ==
    IF v.t = "num" THEN Num(v.v * 100)
    ELSE LET s == trim(v.s)
             r == ScanDecimal(s, 1)
         IN IF Len(s) = 0 THEN Num(0)
            ELSE IF r.ok /\ r.end = Len(s) + 1 THEN Num(r.v) ELSE NaN

\* row.f ? Number(row.f) : 0
NumberOrZero(v) == IF Truthy(v) THEN Number(v) ELSE Num(0)

\* getYearPosition on what parseInt returned: arithmetic on NaN is NaN
YearPositionOf(y) ==
    IF IsNaN(y) THEN NaN
    ELSE [t |-> "num", n |-> getYearPosition(y.v).n, d |-> getYearPosition(y.v).d]

\* the .map callback of loadData (x is Math.random() jitter and the text
\* fields are copied through; neither is read by anything modelled here)
ScatterPoint(row) ==
    LET yr == IF Truthy(row.start_year)
              THEN parseInt(trim(String(row.start_year))) ELSE Null
    IN [y |-> IF yr.t # "null" THEN YearPositionOf(yr) ELSE Null,
        start_year |-> yr,
        total_affected |-> NumberOrZero(row.total_affected),
        total_injured |-> NumberOrZero(row.total_injured),
        total_homeless |-> NumberOrZero(row.total_homeless),
        total_deaths |-> NumberOrZero(row.total_deaths)]

\* for (let year = 1400; year <= 2200; year += 100) timelineMarks.push(...)
TimelineMarks ==
    [k \in 1..((MaxYear - MinYear) \div 100 + 1) |->
        LET yr == MinYear + (k - 1) * 100
        IN [x |-> STATUS_WIDTH \div 2, y |-> getYearPosition(yr),
            label |-> NatToStr(yr)]]

\* What the store call delivers: it rejects, or resolves to {data, error}.
QueryThrows == [kind |-> "throws", error |-> FALSE, hasData |-> FALSE, stories |-> <<>>]
QueryError == [kind |-> "result", error |-> TRUE, hasData |-> FALSE, stories |-> <<>>]
QueryNoData == [kind |-> "result", error |-> FALSE, hasData |-> FALSE, stories |-> <<>>]
QueryData(rows) == [kind |-> "result", error |-> FALSE, hasData |-> TRUE, stories |-> rows]

QueryFailed(res) == res.kind = "throws" \/ res.error

\* the state loadData() leaves: [data, timelineData, isLoading, uncaught]
\* variant: the catch block rethrows instead of clearing the flag
loadDataRethrows(res, old) ==
    IF QueryFailed(res)
    THEN [data |-> old.data, timelineData |-> old.timelineData,
          isLoading |-> old.isLoading, uncaught |-> TRUE]
    ELSE [data |-> [i \in 1..Len(res.stories) |-> ScatterPoint(res.stories[i])],
          timelineData |-> TimelineMarks, isLoading |-> FALSE, uncaught |-> FALSE]

loadData(res, old) ==
    IF QueryFailed(res)
    THEN \* catch (error) { console.error(...); setIsLoading(false); }
         [data |-> old.data, timelineData |-> old.timelineData,
          isLoading |-> FALSE, uncaught |-> FALSE]
    ELSE \* (stories || []).map(...); setData; setTimelineData; setIsLoading(false)
         [data |-> [i \in 1..Len(res.stories) |-> ScatterPoint(res.stories[i])],
          timelineData |-> TimelineMarks, isLoading |-> FALSE, uncaught |-> FALSE]

(***************************************************************************)
(* Store records the query may deliver.                                    *)
(***************************************************************************)
MaxStories == 1

StartYearValues ==
    { Undef, Null, Num(1850), Num(0), Str(<<"1", "8", "5", "0", " ">>),
      Str(<<" ", "1", "4", "0", "0">>), Str(<<"a", "b", "c">>), Str(<<" ">>) }
AffectedValues == { Undef, Num(12), Str(<<"7">>), Str(<<"n", "/", "a">>) }
DeathsValues == { Str(<<"1", "2", "x">>), Str(<<" ", "9", " ">>) }
\* total_injured and total_homeless of a record, varied together
InjuredHomelessValues == { <<Null, Num(0)>>, <<Num(3), Str(<<"4", ".", "5">>)>> }

StoryRows ==
    { [start_year |-> y, total_affected |-> a, total_injured |-> ih[1],
       total_homeless |-> ih[2], total_deaths |-> d] :
        y \in StartYearValues, a \in AffectedValues,
        ih \in InjuredHomelessValues, d \in DeathsValues }

QueryResults ==
    { QueryThrows, QueryError, QueryNoData }
        \cup { QueryData(rows) : rows \in SeqsUpTo(StoryRows, MaxStories) }

(***************************************************************************)
(* InteractiveStarGlobe (FloatingDot.jsx): pieces of the mount effect.     *)
(***************************************************************************)
Resources ==
    {"renderer", "controls", "geometry", "material", "texture", "resizeListener"}

\* init() after `await loadStars()` up to the first animate():
\* whether createStarField built the point cloud, and how often
\* onStarsLoaded is invoked
\* variant: no `else if` branch for an empty collection
initAfterLoadNoElse(stars, hasScene, isFn) ==
    [starField |-> Len(stars) > 0 /\ hasScene,
     calls |-> IF Len(stars) > 0 /\ isFn THEN 1 ELSE 0]

\* variant: the second test is a plain `if`, not an `else if`
initAfterLoadTwice(stars, hasScene, isFn) ==
    [starField |-> Len(stars) > 0 /\ hasScene,
     calls |-> (IF Len(stars) > 0 /\ isFn THEN 1 ELSE 0) + (IF isFn THEN 1 ELSE 0)]

initAfterLoad(stars, hasScene, isFn) ==
    IF Len(stars) > 0
    THEN \* createStarField(stars); if (typeof onStarsLoaded === 'function') ...
         [starField |-> hasScene, calls |-> IF isFn THEN 1 ELSE 0]
    ELSE \* else if (typeof onStarsLoaded === 'function') onStarsLoaded()
         [starField |-> FALSE, calls |-> IF isFn THEN 1 ELSE 0]

NoCleanup ==
    [removeTried |-> FALSE, removeThrew |-> FALSE,
     rendererTried |-> FALSE, rendererThrew |-> FALSE,
     controlsTried |-> FALSE, controlsThrew |-> FALSE, escaped |-> FALSE]

\* The three guarded steps of the cleanup function. attached, hasRenderer and
\* hasControls are the refs it tests; t1, t2, t3 say whether removeChild,
\* renderer.dispose and controls.dispose throw when called.
\* variant: the steps without their try/catch
cleanupStepsUnguarded(attached, hasRenderer, hasControls, t1, t2, t3) ==
    LET s1 == attached /\ hasRenderer
        e1 == s1 /\ t1
        s2 == ~e1 /\ hasRenderer
        e2 == s2 /\ t2
        s3 == ~e1 /\ ~e2 /\ hasControls
        e3 == s3 /\ t3
    IN [removeTried |-> s1, removeThrew |-> e1,
        rendererTried |-> s2, rendererThrew |-> e2,
        controlsTried |-> s3, controlsThrew |-> e3, escaped |-> e1 \/ e2 \/ e3]

cleanupSteps(attached, hasRenderer, hasControls, t1, t2, t3) ==
    [removeTried |-> attached /\ hasRenderer,
     removeThrew |-> attached /\ hasRenderer /\ t1,
     rendererTried |-> hasRenderer,
     rendererThrew |-> hasRenderer /\ t2,
     controlsTried |-> hasControls,
     controlsThrew |-> hasControls /\ t3,
     escaped |-> FALSE]

(***************************************************************************)
(* Inputs of the globe.                                                    *)
(***************************************************************************)
MaxFrames == 3
MaxWidth == 2
MaxGlobeRows == 2

Widths == 1..MaxWidth

GlobeLines ==
    { CsvLine(<<"6", ".", "7">>, <<"9", "0">>, <<"0">>),
      CsvLine(<<"7", ".", "0">>, <<"9", "0">>, <<"0">>) }

\* bodies /stars.csv may have: header only, or rows that survive or do not
GlobeBodies == { Body(CsvText(rows)) : rows \in SeqsUpTo(GlobeLines, MaxGlobeRows) }

(***************************************************************************)
(* InteractiveStarGlobe: the operations.                                   *)
(***************************************************************************)
GlobeInit ==
    /\ globePc = "created"
    /\ onStarsLoadedIsFn \in BOOLEAN
    /\ mountAttached = TRUE
    /\ sceneRef = FALSE
    /\ rendererRef = FALSE
    /\ controlsRef = FALSE
    /\ starPointsRef = FALSE
    /\ resource = [r \in Resources |-> "none"]
    /\ domChildren = {}
    /\ rendererSize = 1
    /\ rafPending = FALSE
    /\ frames = 0
    /\ lateFrames = 0
    /\ onStarsLoadedCalls = 0
    /\ starsLoaded = <<>>
    /\ fetchRejected = FALSE
    /\ unmounted = FALSE
    /\ cleanupRan = FALSE
    /\ cleanupLog = NoCleanup

\* useEffect(() => { ... }, []) when new THREE.WebGLRenderer throws: the catch
\* appends the fallback <div> and returns; init() is never reached and no
\* cleanup function is returned.
MountRendererFails ==
    /\ globePc = "created"
    /\ globePc' = "fallback"
    /\ sceneRef' = TRUE
    /\ domChildren' = domChildren \cup {"fallbackDiv"}
    /\ UNCHANGED <<onStarsLoadedIsFn, mountAttached, rendererRef, controlsRef,
                   starPointsRef, resource, rendererSize, rafPending, frames,
                   lateFrames, onStarsLoadedCalls, starsLoaded, fetchRejected,
                   unmounted, cleanupRan, cleanupLog>>
    /\ UNCHANGED <<mapperVars, loaderVars, vizVars>>

\* The effect when the renderer is created: scene, camera, renderer, controls
\* (which may fail: controlsRef stays null), init() up to its first await,
\* and the resize listener.
MountRendererOk(controlsOk) ==
    /\ globePc = "created"
    /\ globePc' = "fetching"
    /\ sceneRef' = TRUE
    /\ rendererRef' = TRUE
    /\ controlsRef' = controlsOk
    /\ domChildren' = domChildren \cup {"canvas"}
    /\ resource' = [resource EXCEPT !["renderer"] = "held",
                                    !["controls"] = IF controlsOk THEN "held" ELSE "none",
                                    !["resizeListener"] = "held"]
    /\ UNCHANGED <<onStarsLoadedIsFn, mountAttached, starPointsRef, rendererSize,
                   rafPending, frames, lateFrames, onStarsLoadedCalls, starsLoaded,
                   fetchRejected, unmounted, cleanupRan, cleanupLog>>
    /\ UNCHANGED <<mapperVars, loaderVars, vizVars>>

\* init() from the resolution of loadStars() to its return: the star field,
\* onStarsLoaded, and the first, synchronous animate(), which queues the next.
InitContinues(resp) ==
    LET stars == loadStars(resp)
        r == initAfterLoad(stars, sceneRef, onStarsLoadedIsFn)
    IN /\ globePc' = "animating"
       /\ starsLoaded' = stars
       /\ fetchRejected' = ~resp.ok
       /\ starPointsRef' = (starPointsRef \/ r.starField)
       /\ resource' = IF r.starField
                      THEN [resource EXCEPT !["geometry"] = "held",
                                            !["material"] = "held",
                                            !["texture"] = "held"]
                      ELSE resource
       /\ onStarsLoadedCalls' = onStarsLoadedCalls + r.calls
       /\ frames' = frames + 1
       /\ lateFrames' = lateFrames + (IF cleanupRan THEN 1 ELSE 0)
       /\ rafPending' = TRUE
       /\ UNCHANGED <<onStarsLoadedIsFn, mountAttached, sceneRef, rendererRef,
                      controlsRef, domChildren, rendererSize, unmounted,
                      cleanupRan, cleanupLog>>
       /\ UNCHANGED <<mapperVars, loaderVars, vizVars>>

\* fetch('/stars.csv') resolves: loadStars goes on to await response.text()
FetchResolves ==
    /\ globePc = "fetching"
    /\ globePc' = "reading"
    /\ UNCHANGED <<onStarsLoadedIsFn, mountAttached, sceneRef, rendererRef,
                   controlsRef, starPointsRef, resource, domChildren,
                   rendererSize, rafPending, frames, lateFrames,
                   onStarsLoadedCalls, starsLoaded, fetchRejected, unmounted,
                   cleanupRan, cleanupLog>>
    /\ UNCHANGED <<mapperVars, loaderVars, vizVars>>

\* fetch('/stars.csv') rejects: loadStars' catch returns []
FetchRejects ==
    /\ globePc = "fetching"
    /\ InitContinues(Rejected)

\* response.text() resolves with the body, or rejects
BodySettles ==
    /\ globePc = "reading"
    /\ \E resp \in GlobeBodies \cup {Rejected} : InitContinues(resp)

\* a queued animation frame fires: animate()
Frame ==
    /\ rafPending
    /\ frames < MaxFrames
    /\ frames' = frames + 1
    /\ lateFrames' = lateFrames + (IF cleanupRan THEN 1 ELSE 0)
    /\ rafPending' = TRUE
    /\ UNCHANGED <<globePc, onStarsLoadedIsFn, mountAttached, sceneRef,
                   rendererRef, controlsRef, starPointsRef, resource,
                   domChildren, rendererSize, onStarsLoadedCalls, starsLoaded,
                   fetchRejected, unmounted, cleanupRan, cleanupLog>>
    /\ UNCHANGED <<mapperVars, loaderVars, vizVars>>

\* window 'resize' while handleResize is registered
Resize ==
    /\ resource["resizeListener"] = "held"
    /\ \E w \in Widths, throws \in BOOLEAN :
         rendererSize' = IF mountAttached /\ sceneRef /\ rendererRef /\ ~throws
                         THEN w ELSE rendererSize
    /\ UNCHANGED <<globePc, onStarsLoadedIsFn, mountAttached, sceneRef,
                   rendererRef, controlsRef, starPointsRef, resource,
                   domChildren, rafPending, frames, lateFrames,
                   onStarsLoadedCalls, starsLoaded, fetchRejected, unmounted,
                   cleanupRan, cleanupLog>>
    /\ UNCHANGED <<mapperVars, loaderVars, vizVars>>

\* React unmounts the component after the renderer failed: the effect
\* returned no cleanup function
UnmountFallback ==
    /\ globePc = "fallback"
    /\ ~unmounted
    /\ unmounted' = TRUE
    /\ mountAttached' = FALSE
    /\ UNCHANGED <<globePc, onStarsLoadedIsFn, sceneRef, rendererRef,
                   controlsRef, starPointsRef, resource, domChildren,
                   rendererSize, rafPending, frames, lateFrames,
                   onStarsLoadedCalls, starsLoaded, fetchRejected, cleanupRan,
                   cleanupLog>>
    /\ UNCHANGED <<mapperVars, loaderVars, vizVars>>

\* React unmounts the component and runs the effect's cleanup function.
\* Whether mountRef.current is still the <div> when the cleanup runs is
\* React's choice (attached); t1..t3 are the host's failures.
Unmount ==
    /\ globePc \in {"fetching", "reading", "animating"}
    /\ ~unmounted
    /\ \E attached \in BOOLEAN, t1 \in BOOLEAN, t2 \in BOOLEAN, t3 \in BOOLEAN :
         LET log == cleanupSteps(attached, rendererRef, controlsRef, t1, t2, t3)
         IN /\ cleanupLog' = log
            /\ domChildren' = IF log.removeTried /\ ~log.removeThrew
                              THEN domChildren \ {"canvas"} ELSE domChildren
            /\ resource' =
                 [resource EXCEPT
                    !["resizeListener"] = "released",
                    !["renderer"] = IF log.rendererTried /\ ~log.rendererThrew
                                    THEN "released" ELSE @,
                    !["controls"] = IF log.controlsTried /\ ~log.controlsThrew
                                    THEN "released" ELSE @]
    /\ unmounted' = TRUE
    /\ cleanupRan' = TRUE
    /\ mountAttached' = FALSE
    /\ UNCHANGED <<globePc, onStarsLoadedIsFn, sceneRef, rendererRef,
                   controlsRef, starPointsRef, rendererSize, rafPending, frames,
                   lateFrames, onStarsLoadedCalls, starsLoaded, fetchRejected>>
    /\ UNCHANGED <<mapperVars, loaderVars, vizVars>>

(***************************************************************************)
(* ExtinctSpeciesViz: the operations.                                      *)
(***************************************************************************)
VizInit ==
    /\ vizPc = "init"
    /\ queryResult = QueryNoData
    /\ data = <<>>
    /\ timelineData = <<>>
    /\ isLoading = TRUE
    /\ mounted = FALSE
    /\ vizUncaught = FALSE

\* useEffect(() => { loadData(); setMounted(true); }, []): loadData runs up
\* to its await of the store call
VizMount ==
    /\ vizPc = "init"
    /\ vizPc' = "querying"
    /\ mounted' = TRUE
    /\ UNCHANGED <<queryResult, data, timelineData, isLoading, vizUncaught>>
    /\ UNCHANGED <<mapperVars, loaderVars, globeVars>>

\* the store call settles and loadData runs to its end
QuerySettles ==
    /\ vizPc = "querying"
    /\ \E res \in QueryResults :
         LET new == loadData(res, [data |-> data, timelineData |-> timelineData,
                                   isLoading |-> isLoading])
         IN /\ queryResult' = res
            /\ data' = new.data
            /\ timelineData' = new.timelineData
            /\ isLoading' = new.isLoading
            /\ vizUncaught' = new.uncaught
    /\ vizPc' = "settled"
    /\ UNCHANGED mounted
    /\ UNCHANGED <<mapperVars, loaderVars, globeVars>>

(***************************************************************************)
(* Probes of the two pure functions.                                       *)
(***************************************************************************)
YearMargin == 10

MapperInit ==
    /\ year \in (MinYear - YearMargin)..(MaxYear + YearMargin)
    /\ yearPos = [n |-> 0, d |-> 1]
    /\ mapperPc = "idle"

ApplyGetYearPosition ==
    /\ mapperPc = "idle"
    /\ yearPos' = getYearPosition(year)
    /\ mapperPc' = "done"
    /\ UNCHANGED year
    /\ UNCHANGED <<loaderVars, vizVars, globeVars>>

LoaderInit ==
    /\ csvRows \in SeqsUpTo(CsvLines, MaxRows)
    /\ \/ response = Body(CsvText(csvRows))
       \/ csvRows = <<>> /\ response = Rejected
    /\ loaded = <<>>
    /\ loaderPc = "idle"

ApplyLoadStars ==
    /\ loaderPc = "idle"
    /\ loaded' = loadStars(response)
    /\ loaderPc' = "done"
    /\ UNCHANGED <<csvRows, response>>
    /\ UNCHANGED <<mapperVars, vizVars, globeVars>>

(***************************************************************************)
(* Specifications. Each runs one component; the others rest.               *)
(***************************************************************************)
MapperIdle == year = MinYear /\ yearPos = [n |-> 0, d |-> 1] /\ mapperPc = "idle"
LoaderIdle ==
    csvRows = <<>> /\ response = Rejected /\ loaded = <<>> /\ loaderPc = "idle"
GlobeIdle == GlobeInit /\ onStarsLoadedIsFn
VizIdle == VizInit

Init == GlobeInit /\ VizIdle /\ MapperIdle /\ LoaderIdle
Next ==
    \/ MountRendererFails
    \/ \E controlsOk \in BOOLEAN : MountRendererOk(controlsOk)
    \/ FetchResolves
    \/ FetchRejects
    \/ BodySettles
    \/ Frame
    \/ Resize
    \/ Unmount
    \/ UnmountFallback
Spec == Init /\ [][Next]_vars

\* the browser settles every fetch and every body read (it resolves or
\* rejects): the continuation of init() is eventually run
FairSpec ==
    Spec /\ WF_vars(FetchResolves \/ FetchRejects) /\ WF_vars(BodySettles)

InitViz == VizInit /\ GlobeIdle /\ MapperIdle /\ LoaderIdle
NextViz == VizMount \/ QuerySettles
SpecViz == InitViz /\ [][NextViz]_vars

InitMapper == MapperInit /\ GlobeIdle /\ VizIdle /\ LoaderIdle
NextMapper == ApplyGetYearPosition
SpecMapper == InitMapper /\ [][NextMapper]_vars

InitLoader == LoaderInit /\ GlobeIdle /\ VizIdle /\ MapperIdle
NextLoader == ApplyLoadStars
SpecLoader == InitLoader /\ [][NextLoader]_vars

(***************************************************************************)
(* Properties.                                                             *)
(***************************************************************************)

\* C1: after the effect cleanup has run, animate() never runs again (no
\* controls.update() / renderer.render() step happens after the cleanup).
C1_NoFrameAfterCleanup == lateFrames = 0

\* C1, the divergence reached: animate() has run after the cleanup and has
\* queued itself again.
C1_LateFrameReached == cleanupRan /\ lateFrames > 0 /\ rafPending

\* C2: when renderer creation fails, the placeholder is appended and
\* onStarsLoaded, when it is a function, has been invoked.
C2_FallbackSignalsLoaded ==
    globePc = "fallback" =>
        /\ "fallbackDiv" \in domChildren
        /\ onStarsLoadedIsFn => onStarsLoadedCalls >= 1

\* C3: once teardown has completed (no cleanup step having thrown), no
\* resource the instance acquired is still held.
C3_AllReleasedAfterTeardown ==
    (unmounted /\ ~cleanupLog.removeThrew /\ ~cleanupLog.rendererThrew
        /\ ~cleanupLog.controlsThrew)
    => \A r \in Resources : resource[r] # "held"

\* C4: with the renderer created, onStarsLoaded (a function) is eventually
\* invoked whatever the load does; once init() has returned it has been
\* invoked, and a rejected fetch or body read gives an empty collection and
\* builds no star field.
C4_LoadAlwaysSignalled ==
    /\ [](globePc = "animating" /\ onStarsLoadedIsFn => onStarsLoadedCalls >= 1)
    /\ [](globePc = "animating" /\ fetchRejected
            => starsLoaded = <<>> /\ ~starPointsRef)
    /\ [](globePc = "animating" => (starPointsRef <=> Len(starsLoaded) > 0))
    /\ ((rendererRef /\ onStarsLoadedIsFn) ~> (onStarsLoadedCalls >= 1))

\* C4 witness: the load rejected, no star field was built, the callback ran.
C4_RejectedLoadSignalled ==
    /\ globePc = "animating" /\ fetchRejected /\ onStarsLoadedIsFn
    /\ onStarsLoadedCalls = 1 /\ ~starPointsRef

\* the data row's record has finite coordinates and a brightness in
\* [-1.5, 6.7]
FiniteInRange(star) ==
    /\ star.x.t = "num" /\ star.y.t = "num" /\ star.z.t = "num"
    /\ star.brightness.t = "num"
    /\ star.brightness.v >= -150 /\ star.brightness.v <= 670

\* C5: loadStars returns exactly the data rows (header discarded) with finite
\* x, y, z and brightness in [-1.5, 6.7], in row order, each with the id of
\* its 1-based data-row index; rows whose magnitude, right ascension or
\* declination does not parse, or whose brightness is 7.0, are dropped.
C5_LoadStarsKeepsExactlyValidRows ==
    (loaderPc = "done" /\ response.ok) =>
        /\ \A k \in 1..Len(loaded) :
             /\ loaded[k].id \in 1..Len(csvRows)
             /\ loaded[k] = StarOfRow(csvRows[loaded[k].id], loaded[k].id - 1)
             /\ FiniteInRange(loaded[k])
        /\ \A i \in 1..Len(csvRows) :
             FiniteInRange(StarOfRow(csvRows[i], i - 1))
                <=> \E k \in 1..Len(loaded) : loaded[k].id = i
        /\ \A k \in 1..(Len(loaded) - 1) : loaded[k].id < loaded[k + 1].id
        /\ \A i \in 1..Len(csvRows) :
             LET cols == Split(csvRows[i], ",")
             IN (\/ IsNaN(parseFloat(Field(cols, 5)))
                 \/ IsNaN(parseFloat(Field(cols, 8)))
                 \/ IsNaN(parseFloat(Field(cols, 9)))
                 \/ Field(cols, 5) = <<"7", ".", "0">>)
                => \A k \in 1..Len(loaded) : loaded[k].id # i

\* C5 witness: the first data row was dropped and the second kept, so the
\* only survivor has id 2.
C5_NonContiguousIds ==
    /\ loaderPc = "done" /\ response.ok
    /\ Len(csvRows) = 2 /\ Len(loaded) = 1 /\ loaded[1].id = 2

\* what the claim expects of a source value: a parsable year, a numeric total
ParsableYear(v) ==
    v.t \in {"num", "str"} /\ IsNum(parseInt(trim(String(v))))
NumericValue(v) == v.t \in {"num", "str"} /\ IsNum(Number(v))

\* C6: every built point has start_year = the integer parsed from the trimmed
\* value when it parses, else null; y = getYearPosition(start_year) or null
\* likewise; each total = the numeric source value, else 0; and no NaN.
C6_PointsCoercedToDefaults ==
    (vizPc = "settled" /\ ~QueryFailed(queryResult)) =>
        \A i \in 1..Len(data) :
            LET row == queryResult.stories[i]
                p == data[i]
                Total(got, v) ==
                    /\ got.t = "num"
                    /\ got.v = IF NumericValue(v) THEN Number(v).v ELSE 0
            IN /\ IF ParsableYear(row.start_year)
                  THEN /\ p.start_year.t = "num"
                       /\ p.start_year.v = parseInt(trim(String(row.start_year))).v
                       /\ p.y.t = "num"
                       /\ p.y.d = 800
                       /\ p.y.n = (2200 - p.start_year.v) * 12500
                  ELSE p.start_year.t = "null" /\ p.y.t = "null"
               /\ Total(p.total_affected, row.total_affected)
               /\ Total(p.total_injured, row.total_injured)
               /\ Total(p.total_homeless, row.total_homeless)
               /\ Total(p.total_deaths, row.total_deaths)

\* C6, the divergence reached: a built point carries NaN.
C6_NaNPointReached ==
    /\ vizPc = "settled" /\ Len(data) > 0
    /\ \E i \in 1..Len(data) :
         data[i].start_year.t = "nan" \/ data[i].total_affected.t = "nan"

\* C7: getYearPosition(year) = ((2200 - year) / 800) * 12500, strictly
\* decreasing over [1400, 2200], 12500 at 1400, 0 at 2200, unclamped outside.
C7_YearPositionLinearUnclamped ==
    mapperPc = "done" =>
        /\ yearPos.d = 800
        /\ yearPos.n = (2200 - year) * 12500
        /\ (year >= 1400 /\ year < 2200) =>
              /\ getYearPosition(year + 1).d = yearPos.d
              /\ getYearPosition(year + 1).n < yearPos.n
        /\ year = 1400 => yearPos.n = 12500 * yearPos.d
        /\ year = 2200 => yearPos.n = 0
        /\ year < 1400 => yearPos.n > 12500 * yearPos.d
        /\ year > 2200 => yearPos.n < 0

\* C7 witness: a year below 1400 was mapped above 12500.
C7_BelowRangeAboveHeight ==
    mapperPc = "done" /\ year < 1400 /\ yearPos.n > 12500 * yearPos.d

\* C8: a failed query (error result or rejection) is caught, leaves the
\* plotted data empty and clears the loading flag; on every outcome of the
\* query the loading flag is false and nothing was propagated; and until the
\* query has settled the component is never stuck (its next step is enabled).
C8_QueryFailureCaughtLoadingCleared ==
    /\ (vizPc = "settled" /\ QueryFailed(queryResult))
          => (data = <<>> /\ ~vizUncaught /\ ~isLoading)
    /\ vizPc = "settled" => (~isLoading /\ ~vizUncaught)
    /\ vizPc # "settled" => (isLoading /\ ENABLED NextViz)

\* C8 witness: the store returned an error result and the flag is cleared.
C8_ErrorResultSettled ==
    /\ vizPc = "settled" /\ queryResult.kind = "result" /\ queryResult.error
    /\ data = <<>> /\ ~isLoading

\* C9: in the cleanup no error leaves a step, and a throwing step does not
\* keep a later step from running: the renderer and the controls, when
\* present, have their dispose called whatever the earlier steps did.
C9_CleanupStepsIndependent ==
    cleanupRan =>
        /\ ~cleanupLog.escaped
        /\ rendererRef => cleanupLog.rendererTried
        /\ controlsRef => cleanupLog.controlsTried

\* C9 witness: removeChild and renderer.dispose both threw and
\* controls.dispose was still called.
C9_LaterStepsRanAfterThrows ==
    /\ cleanupRan /\ cleanupLog.removeThrew /\ cleanupLog.rendererThrew
    /\ cleanupLog.controlsTried

\* C10: within one mount onStarsLoaded is invoked at most once.
C10_OnStarsLoadedAtMostOnce == onStarsLoadedCalls <= 1

\* C10 witness: the callback ran once and frames, a resize and the unmount
\* followed the load.
C10_OnceAfterLaterEvents ==
    /\ onStarsLoadedCalls = 1 /\ unmounted /\ frames >= 3
    /\ rendererSize = 2 /\ Len(starsLoaded) > 0

====
